---- MODULE Spec2Model ----
(***************************************************************************)
(* Engagement pipeline of the repository: the record cleaners and the      *)
(* dataset builder of src/src/data/preprocessing.py and the five metric    *)
(* functions of src/src/analysis/engajamento.py, driven as main.py drives  *)
(* them.                                                                   *)
(*                                                                         *)
(* A DataFrame is a sequence of records (one record per row, one field per *)
(* column).  A cell is <<>> when it is missing (NaN / <NA> / NaT) and <<v>> *)
(* when it holds v.  Text is a sequence of one-character strings.  A date  *)
(* cell is <<>> when missing, <<ordinal>> when it holds a Timestamp (the   *)
(* proleptic Gregorian ordinal of its day) and <<year, month, day>> when   *)
(* it still holds the text written in the CSV.  Floats rounded to 2        *)
(* decimals are kept as integer hundredths.  A raised exception is the     *)
(* record [tipo |-> its class, nome |-> what it names].                    *)
(***************************************************************************)
EXTENDS Integers, Sequences, FiniteSets, TLC

VARIABLES pc, arquivos, datasets, ausente, usuarios, conteudos, interacoes,
          dataset, top_n, metricas, artefatos, erro, gravados, gerar_graficos

vars == <<pc, arquivos, datasets, ausente, usuarios, conteudos, interacoes,
          dataset, top_n, metricas, artefatos, erro, gravados, gerar_graficos>>

(***************************************************************************)
(* Bounds of the model                                                     *)
(***************************************************************************)
\* raw rows handed to build_engagement_dataset, over the three collections
MaxLinhasBrutas == 4

\* rows of a unified dataset handed directly to a metric function
MaxLinhas == 3

\* raw rows handed to the three cleaners on their own, over the collections
MaxLinhasSujas == 3

\* raw rows of an input map that may lack a collection or a column
MaxLinhasEstrutura == 2

\* rows of the CSV files of a run of run_pipeline, over the three files
MaxLinhasArquivos == 4

(***************************************************************************)
(* Cells and generic sequence helpers                                      *)
(***************************************************************************)
NA == <<>>

isna(x) == x = NA

notna(x) == x # NA

Range(s) == {s[i] : i \in 1..Len(s)}

SeqsUpTo(S, n) == UNION {[1..k -> S] : k \in 0..n}

RECURSIVE SumSeq(_)
SumSeq(s) == IF s = <<>> THEN 0 ELSE Head(s) + SumSeq(Tail(s))

RECURSIVE Concat(_)
Concat(ss) == IF ss = <<>> THEN <<>> ELSE Head(ss) \o Concat(Tail(ss))

Min(a, b) == IF a <= b THEN a ELSE b

Max(a, b) == IF a >= b THEN a ELSE b

(***************************************************************************)
(* Text: str.strip() and str.lower()                                       *)
(***************************************************************************)
Alphabet == <<"a","b","c","d","e","f","g","h","i","j","k","l","m",
              "n","o","p","q","r","s","t","u","v","w","x","y","z">>

Upper == <<"A","B","C","D","E","F","G","H","I","J","K","L","M",
           "N","O","P","Q","R","S","T","U","V","W","X","Y","Z">>

lower_char(c) ==
    IF \E i \in 1..Len(Upper) : Upper[i] = c
    THEN Alphabet[CHOOSE i \in 1..Len(Upper) : Upper[i] = c]
    ELSE c

str_lower(cs) == [i \in 1..Len(cs) |-> lower_char(cs[i])]

RECURSIVE lstrip(_)
lstrip(cs) == IF cs # <<>> /\ Head(cs) = " " THEN lstrip(Tail(cs)) ELSE cs

RECURSIVE rstrip(_)
rstrip(cs) ==
    IF cs # <<>> /\ cs[Len(cs)] = " " THEN rstrip(SubSeq(cs, 1, Len(cs) - 1)) ELSE cs

str_strip(cs) == rstrip(lstrip(cs))

\* series.astype("string").str.strip(): a missing cell stays missing
strip_cell(x) == IF isna(x) THEN NA ELSE <<str_strip(x[1])>>

\* series.astype("string").str.strip().str.lower()
_normalize_str_series(x) == IF isna(x) THEN NA ELSE <<str_lower(str_strip(x[1]))>>

(***************************************************************************)
(* Dates: pd.to_datetime(errors="coerce")                                  *)
(***************************************************************************)
IsLeap(y) == (y % 4 = 0 /\ y % 100 # 0) \/ y % 400 = 0

DaysInMonth(y, m) ==
    IF m = 2 THEN (IF IsLeap(y) THEN 29 ELSE 28)
    ELSE IF m \in {4, 6, 9, 11} THEN 30 ELSE 31

RECURSIVE DaysBeforeMonth(_, _)
DaysBeforeMonth(y, m) ==
    IF m <= 1 THEN 0 ELSE DaysBeforeMonth(y, m - 1) + DaysInMonth(y, m - 1)

ToOrdinal(y, m, d) ==
    365 * (y - 1) + ((y - 1) \div 4) - ((y - 1) \div 100) + ((y - 1) \div 400)
    + DaysBeforeMonth(y, m) + d

IsValidDate(t) ==
    /\ t[2] \in 1..12
    /\ t[3] \in 1..DaysInMonth(t[1], t[2])

\* the cell already holds a Timestamp (a datetime64 column)
IsTimestamp(x) == Len(x) = 1

\* a Timestamp is parsed again as if it were text, and fails
to_datetime_alt(x) ==
    IF isna(x) \/ IsTimestamp(x) THEN NA
    ELSE IF IsValidDate(x) THEN <<ToOrdinal(x[1], x[2], x[3])>>
    ELSE NA

\* a Timestamp is returned as it is, text is parsed, an unparseable or
\* missing value becomes NaT
to_datetime(x) ==
    IF isna(x) THEN NA
    ELSE IF IsTimestamp(x) THEN x
    ELSE IF IsValidDate(x) THEN <<ToOrdinal(x[1], x[2], x[3])>>
    ELSE NA

(***************************************************************************)
(* The weight table                                                        *)
(***************************************************************************)
curtida == <<"c","u","r","t","i","d","a">>

comentario == <<"c","o","m","e","n","t","a","r","i","o">>

compartilhamento == <<"c","o","m","p","a","r","t","i","l","h","a","m","e","n","t","o">>

INTERACTION_WEIGHTS == (curtida :> 1) @@ (comentario :> 2) @@ (compartilhamento :> 3)

(***************************************************************************)
(* Record Cleaner                                                          *)
(***************************************************************************)
\* DataFrame.drop_duplicates(subset=col): keeps the first row of each key,
\* two missing keys count as equal
\* keep="last": the last row of each key is the one kept
drop_duplicates_alt(df, seen) ==
    LET Ultima(i) == \A j \in (i + 1)..Len(df) : df[j].usuario_id # df[i].usuario_id
        idx == {i \in 1..Len(df) : Ultima(i)}
        Kth(k) == CHOOSE i \in idx : Cardinality({j \in idx : j <= i}) = k
    IN [k \in 1..Cardinality(idx) |-> df[Kth(k)]]

RECURSIVE drop_duplicates(_, _)
drop_duplicates(df, seen) ==
    IF df = <<>> THEN <<>>
    ELSE IF Head(df).usuario_id \in seen
         THEN drop_duplicates(Tail(df), seen)
         ELSE <<Head(df)>> \o drop_duplicates(Tail(df), seen \cup {Head(df).usuario_id})

\* the column assignments of clean_usuarios
normaliza_usuarios(df) ==
    [i \in 1..Len(df) |->
        [df[i] EXCEPT !.nome = strip_cell(@),
                      !.segmento = _normalize_str_series(@)]]

clean_usuarios(df) == drop_duplicates(normaliza_usuarios(df), {})

\* the column assignments of clean_conteudos
normaliza_conteudos(df) ==
    [i \in 1..Len(df) |->
        [df[i] EXCEPT !.categoria = _normalize_str_series(@),
                      !.data_publicacao = to_datetime(@)]]

clean_conteudos(df) ==
    LET HasDate(r) == notna(r.data_publicacao)
    IN SelectSeq(normaliza_conteudos(df), HasDate)

\* cleaned["tipo_interacao"].isin(INTERACTION_WEIGHTS)
isin_alt(x) == notna(x)

isin(x) == notna(x) /\ x[1] \in DOMAIN INTERACTION_WEIGHTS

\* cleaned["tipo_interacao"].map(INTERACTION_WEIGHTS)
map_weights(x) ==
    IF notna(x) /\ x[1] \in DOMAIN INTERACTION_WEIGHTS
    THEN <<INTERACTION_WEIGHTS[x[1]]>> ELSE NA

\* the column assignments of clean_interacoes made before the filters
normaliza_interacoes(df) ==
    [i \in 1..Len(df) |->
        [df[i] EXCEPT !.tipo_interacao = _normalize_str_series(@),
                      !.data_interacao = to_datetime(@)]]

\* cleaned["peso_interacao"] = ...: the column is added, or overwritten
com_peso(r) ==
    [c \in DOMAIN r \cup {"peso_interacao"} |->
        IF c = "peso_interacao" THEN map_weights(r.tipo_interacao) ELSE r[c]]

\* as clean_interacoes, with rows repeating an earlier row removed
clean_interacoes_alt(df) ==
    LET HasDate(r) == notna(r.data_interacao)
        Known(r) == isin(r.tipo_interacao)
        kept == SelectSeq(SelectSeq(normaliza_interacoes(df), HasDate), Known)
        idx == {i \in 1..Len(kept) : \A j \in 1..(i - 1) : kept[j] # kept[i]}
        Kth(k) == CHOOSE i \in idx : Cardinality({j \in idx : j <= i}) = k
    IN [k \in 1..Cardinality(idx) |-> com_peso(kept[Kth(k)])]

clean_interacoes(df) ==
    LET HasDate(r) == notna(r.data_interacao)
        Known(r) == isin(r.tipo_interacao)
        kept == SelectSeq(SelectSeq(normaliza_interacoes(df), HasDate), Known)
    IN [i \in 1..Len(kept) |-> com_peso(kept[i])]

\* cleaned = df.copy(): the column assignments go to the copy, so the frame
\* the caller passed holds after the call what it held before
df_apos_copy_alt(df, cleaned) == cleaned

df_apos_copy(df, cleaned) == df

(***************************************************************************)
(* Engagement Dataset Builder                                              *)
(***************************************************************************)
\* DataFrame.merge(how="left"): every left row, in order, once per right row
\* with an equal key (in right order), or once with the right columns
\* missing; a missing key equals a missing key
merge_rows(left, right, left_on, right_on, cols) ==
    Concat([k \in 1..Len(left) |->
        LET l == left[k]
            Hit(r) == r[right_on] = l[left_on]
            ms == SelectSeq(right, Hit)
        IN IF ms = <<>> THEN <<l @@ [c \in DOMAIN cols |-> NA]>>
           ELSE [j \in 1..Len(ms) |-> l @@ [c \in DOMAIN cols |-> ms[j][cols[c]]]]])

\* interacoes.merge(conteudos, on="conteudo_id", how="left")
merge_conteudos(left, right) ==
    merge_rows(left, right, "conteudo_id", "conteudo_id",
               ("autor_id" :> "autor_id") @@ ("categoria" :> "categoria")
                   @@ ("data_publicacao" :> "data_publicacao"))

\* .merge(autores, on="autor_id", how="left"), autores being usuarios with
\* usuario_id, nome, segmento renamed to autor_id, autor_nome, segmento_autor
merge_autores(left, right) ==
    merge_rows(left, right, "autor_id", "usuario_id",
               ("autor_nome" :> "nome") @@ ("segmento_autor" :> "segmento"))

\* .merge(participantes, on="usuario_id", how="left"), participantes being
\* usuarios with nome, segmento renamed to usuario_nome, segmento_usuario
merge_participantes(left, right) ==
    merge_rows(left, right, "usuario_id", "usuario_id",
               ("usuario_nome" :> "nome") @@ ("segmento_usuario" :> "segmento"))

\* .dropna(subset=["autor_nome", "usuario_nome", "categoria", "data_publicacao"])
dropna_essenciais_alt(df) ==
    LET Full(r) == /\ notna(r.autor_nome)
                   /\ notna(r.categoria)
                   /\ notna(r.data_publicacao)
    IN SelectSeq(df, Full)

dropna_essenciais(df) ==
    LET Full(r) == /\ notna(r.autor_nome)
                   /\ notna(r.usuario_nome)
                   /\ notna(r.categoria)
                   /\ notna(r.data_publicacao)
    IN SelectSeq(df, Full)

\* the joins, the filter and the derived dia_interacao column
join_datasets(us, cs, is) ==
    LET joined == dropna_essenciais(
                      merge_participantes(
                          merge_autores(merge_conteudos(is, cs), us), us))
    IN [i \in 1..Len(joined) |->
          joined[i] @@ [dia_interacao |-> joined[i].data_interacao]]

(***************************************************************************)
(* Ordering of group keys (groupby sorts its keys ascending)               *)
(***************************************************************************)
CodePoints == <<" ">> \o Upper \o Alphabet

Ord(c) == CHOOSE i \in 1..Len(CodePoints) : CodePoints[i] = c

RECURSIVE StrLess(_, _)
StrLess(a, b) ==
    IF b = <<>> THEN FALSE
    ELSE IF a = <<>> THEN TRUE
    ELSE IF Head(a) = Head(b) THEN StrLess(Tail(a), Tail(b))
    ELSE Ord(Head(a)) < Ord(Head(b))

\* the elements of the finite set S in ascending order of Less
SortSet(S, less) ==
    CHOOSE s \in [1..Cardinality(S) -> S] :
        \A i, j \in 1..Cardinality(S) : i < j => <<s[i], s[j]>> \in less

\* DataFrame.sort_values(by=col, ascending=False) with the default
\* kind="quicksort", which is not a stable sort: every arrangement of the rows
\* in which the column does not increase is a possible result
sort_values(rows, by) ==
    {s \in {[i \in 1..Len(rows) |-> rows[f[i]]] : f \in Permutations(1..Len(rows))} :
        \A i \in 1..(Len(s) - 1) : s[i][by] >= s[i + 1][by]}

\* DataFrame.head(n): the first n rows, or for a negative n all rows but the
\* last -n
head(rows, n) ==
    IF n >= 0 THEN SubSeq(rows, 1, Min(n, Len(rows)))
    ELSE SubSeq(rows, 1, Max(Len(rows) + n, 0))

\* Series.nunique(): distinct values, missing ones not counted
nunique(df, col) == Cardinality({df[i][col] : i \in 1..Len(df)} \ {NA})

\* Series.count(): the cells that are not missing
count(rows, col) == Cardinality({i \in 1..Len(rows) : notna(rows[i][col])})

\* Series.sum() of peso_interacao, missing cells skipped
sum_pesos(rows) ==
    SumSeq([i \in 1..Len(rows) |->
              IF notna(rows[i].peso_interacao) THEN rows[i].peso_interacao[1] ELSE 0])

\* round(num / den, 2) in hundredths: the nearest hundredth of the exact
\* quotient, a tie going to the even one
round2(num, den) ==
    LET q == (100 * num) \div den
        r == (100 * num) % den
    IN IF 2 * r < den THEN q
       ELSE IF 2 * r > den THEN q + 1
       ELSE IF q % 2 = 0 THEN q ELSE q + 1

(***************************************************************************)
(* Metrics Engine                                                          *)
(***************************************************************************)
global_engagement_metrics_alt(df) ==
    LET total_conteudos == nunique(df, "conteudo_id")
    IN [total_interacoes |-> Len(df),
        conteudos_analisados |-> total_conteudos,
        usuarios_participantes |-> nunique(df, "usuario_id"),
        engajamento_medio_por_conteudo |->
            IF total_conteudos # 0 THEN round2(sum_pesos(df), total_conteudos) ELSE 0]

\* the average is computed without the guard against a zero content count
global_engagement_metrics_sem_guarda(df) ==
    IF nunique(df, "conteudo_id") = 0
    THEN [tipo |-> "ZeroDivisionError", nome |-> "engajamento_medio"]
    ELSE [total_interacoes |-> nunique(df, "interacao_id"),
          conteudos_analisados |-> nunique(df, "conteudo_id"),
          usuarios_participantes |-> nunique(df, "usuario_id"),
          engajamento_medio_por_conteudo |->
              round2(sum_pesos(df), nunique(df, "conteudo_id"))]

global_engagement_metrics(df) ==
    LET total_interacoes == nunique(df, "interacao_id")
        total_conteudos == nunique(df, "conteudo_id")
        usuarios_participantes == nunique(df, "usuario_id")
        soma_pesos == sum_pesos(df)
    IN [total_interacoes |-> total_interacoes,
        conteudos_analisados |-> total_conteudos,
        usuarios_participantes |-> usuarios_participantes,
        engajamento_medio_por_conteudo |->
            IF total_conteudos # 0 THEN round2(soma_pesos, total_conteudos) ELSE 0]

\* df.groupby(["autor_id", "autor_nome"])["peso_interacao"].sum(): one row per
\* key, keys ascending, rows with a missing key left out
AutorLess(a, b) ==
    \/ a[1][1] < b[1][1]
    \/ a[1] = b[1] /\ StrLess(a[2][1], b[2][1])

groupby_autor(df) ==
    LET keys == {<<df[i].autor_id, df[i].autor_nome>> : i \in 1..Len(df)}
        present == {k \in keys : notna(k[1]) /\ notna(k[2])}
        sorted == SortSet(present, {p \in present \X present : AutorLess(p[1], p[2])})
    IN [g \in 1..Len(sorted) |->
          LET InGroup(r) == r.autor_id = sorted[g][1] /\ r.autor_nome = sorted[g][2]
          IN [autor_id |-> sorted[g][1], autor_nome |-> sorted[g][2],
              score_engajamento |-> sum_pesos(SelectSeq(df, InGroup))]]

\* the results top_autores_por_engajamento(df, top_n) can return
top_autores_por_engajamento(df, n) ==
    {head(s, n) : s \in sort_values(groupby_autor(df), "score_engajamento")}

\* df.groupby("categoria").agg(interacoes=count, score=sum)
CellStrLess(a, b) == StrLess(a[1], b[1])

groupby_categoria_alt(df) ==
    LET keys == {df[i].categoria : i \in 1..Len(df)} \ {NA}
        sorted == SortSet(keys, {p \in keys \X keys : CellStrLess(p[1], p[2])})
    IN [g \in 1..Len(sorted) |->
          LET InGroup(r) == r.categoria = sorted[g]
              rows == SelectSeq(df, InGroup)
          IN [categoria |-> sorted[g],
              interacoes |-> count(rows, "interacao_id"),
              score |-> count(rows, "interacao_id")]]

groupby_categoria(df) ==
    LET keys == {df[i].categoria : i \in 1..Len(df)} \ {NA}
        sorted == SortSet(keys, {p \in keys \X keys : CellStrLess(p[1], p[2])})
    IN [g \in 1..Len(sorted) |->
          LET InGroup(r) == r.categoria = sorted[g]
              rows == SelectSeq(df, InGroup)
          IN [categoria |-> sorted[g],
              interacoes |-> count(rows, "interacao_id"),
              score |-> sum_pesos(rows)]]

interacoes_por_categoria(df) == sort_values(groupby_categoria(df), "score")

\* df.set_index("data_interacao").resample("D").agg(count, sum): one bin per
\* day from the first to the last day of the index
timeline_engajamento_alt(df) ==
    LET dias == {df[i].data_interacao[1] : i \in {j \in 1..Len(df) : notna(df[j].data_interacao)}}
        sorted == SortSet(dias, {p \in dias \X dias : p[1] < p[2]})
    IN [k \in 1..Len(sorted) |->
          LET InDay(r) == r.data_interacao = <<sorted[k]>>
              rows == SelectSeq(df, InDay)
          IN [data_interacao |-> <<sorted[k]>>,
              interacoes |-> count(rows, "interacao_id"),
              score |-> sum_pesos(rows)]]

timeline_engajamento(df) ==
    LET dias == {df[i].data_interacao[1] : i \in {j \in 1..Len(df) : notna(df[j].data_interacao)}}
    IN IF dias = {} THEN <<>>
       ELSE LET first == CHOOSE d \in dias : \A e \in dias : d <= e
                last == CHOOSE d \in dias : \A e \in dias : d >= e
            IN [k \in 1..(last - first + 1) |->
                  LET InDay(r) == r.data_interacao = <<first + k - 1>>
                      rows == SelectSeq(df, InDay)
                  IN [data_interacao |-> <<first + k - 1>>,
                      interacoes |-> count(rows, "interacao_id"),
                      score |-> sum_pesos(rows)]]

\* np.where(total == 0, 0.0, (quantidade / total * 100).round(2)), in hundredths
percentual_alt(quantidade, total) ==
    IF total = 0 THEN 0 ELSE round2(quantidade, total)

percentual(quantidade, total) ==
    IF total = 0 THEN 0 ELSE round2(100 * quantidade, total)

groupby_tipo(df) ==
    LET total == count(df, "interacao_id")
        keys == {df[i].tipo_interacao : i \in 1..Len(df)} \ {NA}
        sorted == SortSet(keys, {p \in keys \X keys : CellStrLess(p[1], p[2])})
    IN [g \in 1..Len(sorted) |->
          LET InGroup(r) == r.tipo_interacao = sorted[g]
              quantidade == count(SelectSeq(df, InGroup), "interacao_id")
          IN [tipo_interacao |-> sorted[g],
              quantidade |-> quantidade,
              percentual |-> percentual(quantidade, total)]]

distribuicao_tipo_interacao(df) == sort_values(groupby_tipo(df), "quantidade")

(***************************************************************************)
(* Raw inputs                                                              *)
(***************************************************************************)
T_Ana == <<" ","A","n","a"," ">>

T_Edu == <<"E","d","u">>

T_Criador == <<" ","C","r","i","a","d","o","r">>

T_leitor == <<"l","e","i","t","o","r">>

T_Video == <<" ","V","i","d","e","o">>

T_foto == <<"f","o","t","o">>

T_Curtida == <<" ","C","u","r","t","i","d","a">>

T_COMPARTILHAMENTO == <<"C","O","M","P","A","R","T","I","L","H","A","M","E","N","T","O"," ">>

T_poke == <<"p","o","k","e">>

Usuario(id, nome, segmento) ==
    [usuario_id |-> id, nome |-> nome, segmento |-> segmento]

Conteudo(id, autor, categoria, data) ==
    [conteudo_id |-> id, autor_id |-> autor, categoria |-> categoria,
     data_publicacao |-> data]

Interacao(id, conteudo, usuario, tipo, data) ==
    [interacao_id |-> id, conteudo_id |-> conteudo, usuario_id |-> usuario,
     tipo_interacao |-> tipo, data_interacao |-> data]

RawUsuarios ==
    { Usuario(<<1>>, <<T_Ana>>, <<T_Criador>>),
      Usuario(<<1>>, NA, <<T_leitor>>),
      Usuario(<<2>>, <<T_Edu>>, NA) }

RawConteudos ==
    { Conteudo(<<101>>, <<1>>, <<T_Video>>, <<2025, 10, 1>>),
      Conteudo(<<101>>, <<2>>, <<T_foto>>, <<2025, 9, 30>>),
      Conteudo(<<102>>, <<9>>, <<T_foto>>, <<2025, 10, 2>>),
      Conteudo(<<102>>, <<1>>, NA, <<2025, 10, 2>>),
      Conteudo(<<101>>, <<1>>, <<T_foto>>, <<2025, 2, 30>>) }

RawInteracoes ==
    { Interacao(<<1>>, <<101>>, <<1>>, <<T_Curtida>>, <<2025, 10, 1>>),
      Interacao(<<2>>, <<101>>, <<2>>, <<T_COMPARTILHAMENTO>>, <<2025, 10, 3>>),
      Interacao(NA, <<101>>, <<1>>, <<comentario>>, <<2025, 10, 1>>),
      Interacao(<<4>>, <<102>>, <<1>>, <<curtida>>, <<2025, 10, 2>>),
      Interacao(<<5>>, <<101>>, <<1>>, <<T_poke>>, <<2025, 10, 1>>),
      Interacao(<<6>>, <<101>>, <<1>>, <<curtida>>, <<2025, 2, 30>>) }

\* raw rows of every kind for the cleaners: keys repeated or missing, text
\* to trim, dates already parsed, unparseable or missing, types unknown or
\* missing
T_edu == <<"E","d","u"," ">>

SujosUsuarios ==
    RawUsuarios \cup
    { Usuario(<<2>>, <<T_edu>>, <<T_Criador>>),
      Usuario(NA, <<T_Ana>>, <<T_leitor>>) }

SujosConteudos ==
    { Conteudo(<<101>>, <<1>>, <<T_Video>>, <<2025, 10, 1>>),
      Conteudo(<<101>>, <<2>>, <<T_foto>>, <<ToOrdinal(2025, 9, 30)>>),
      Conteudo(<<102>>, <<1>>, NA, <<2025, 2, 30>>),
      Conteudo(<<103>>, <<1>>, <<T_foto>>, NA) }

SujosInteracoes ==
    { Interacao(<<1>>, <<101>>, <<1>>, <<T_Curtida>>, <<2025, 10, 1>>),
      Interacao(<<2>>, <<101>>, <<2>>, <<T_COMPARTILHAMENTO>>, <<ToOrdinal(2025, 10, 3)>>),
      Interacao(<<3>>, <<101>>, <<1>>, <<T_poke>>, <<2025, 10, 1>>),
      Interacao(<<4>>, <<101>>, <<1>>, NA, <<2025, 10, 1>>),
      Interacao(<<5>>, <<101>>, <<1>>, <<curtida>>, <<2025, 2, 30>>),
      Interacao(<<6>>, <<101>>, <<1>>, <<comentario>>, NA) }

(***************************************************************************)
(* Unified datasets handed directly to the metric functions                *)
(***************************************************************************)
N_Ana == <<"A","n","a">>

N_Bruno == <<"B","r","u","n","o">>

N_Caio == <<"C","a","i","o">>

K_video == <<"v","i","d","e","o">>

K_texto == <<"t","e","x","t","o">>

Linha(id, conteudo, usuario, tipo, dia, autor, nome, categoria) ==
    [interacao_id |-> <<id>>, conteudo_id |-> <<conteudo>>, usuario_id |-> <<usuario>>,
     tipo_interacao |-> <<tipo>>, data_interacao |-> <<dia>>,
     peso_interacao |-> <<INTERACTION_WEIGHTS[tipo]>>,
     autor_id |-> <<autor>>, categoria |-> <<categoria>>,
     data_publicacao |-> <<ToOrdinal(2025, 9, 30)>>,
     autor_nome |-> <<nome>>, segmento_autor |-> <<T_leitor>>,
     usuario_nome |-> <<T_Edu>>, segmento_usuario |-> <<T_leitor>>,
     dia_interacao |-> <<dia>>]

LinhasUnificadas ==
    { Linha(1, 101, 1, curtida, ToOrdinal(2025, 10, 1), 10, N_Ana, K_video),
      Linha(2, 101, 2, comentario, ToOrdinal(2025, 10, 1), 10, N_Ana, K_video),
      Linha(3, 102, 3, compartilhamento, ToOrdinal(2025, 10, 2), 11, N_Bruno, K_texto),
      Linha(4, 103, 1, curtida, ToOrdinal(2025, 10, 4), 12, N_Caio, K_texto),
      Linha(1, 102, 2, comentario, ToOrdinal(2025, 9, 30), 11, N_Bruno, K_texto) }

\* rows whose interaction carries no interacao_id
LinhasSemId ==
    { [Linha(0, 101, 1, curtida, ToOrdinal(2025, 10, 1), 10, N_Ana, K_video)
           EXCEPT !.interacao_id = NA],
      [Linha(0, 102, 3, comentario, ToOrdinal(2025, 10, 2), 11, N_Bruno, K_texto)
           EXCEPT !.interacao_id = NA] }

\* top_autores_por_engajamento(df, top_n: int = 5)
DefaultTopN == 5

TopNs == {-2, -1, 0, 1, 2, DefaultTopN}

(***************************************************************************)
(* Structure of the input map, exceptions                                  *)
(***************************************************************************)
Colecoes == <<"usuarios", "conteudos", "interacoes">>

Colunas ==
    [usuarios |-> {"usuario_id", "nome", "segmento"},
     conteudos |-> {"conteudo_id", "autor_id", "categoria", "data_publicacao"},
     interacoes |-> {"interacao_id", "conteudo_id", "usuario_id",
                     "tipo_interacao", "data_interacao"}]

\* what an input map can lack: a collection <<c>> or a column <<c, k>> of one
Defeitos ==
    {<<Colecoes[i]>> : i \in 1..Len(Colecoes)}
        \cup UNION {{<<Colecoes[i], k>> : k \in Colunas[Colecoes[i]]} : i \in 1..Len(Colecoes)}

\* df without the column col
SemColuna(df, col) ==
    [i \in 1..Len(df) |-> [c \in DOMAIN df[i] \ {col} |-> df[i][c]]]

\* the input map without what falta names (nothing when falta is NA)
SemDefeito(ds, falta) ==
    [c \in DOMAIN ds \ (IF Len(falta) = 1 THEN {falta[1]} ELSE {}) |->
        IF Len(falta) = 2 /\ falta[1] = c THEN SemColuna(ds[c], falta[2]) ELSE ds[c]]

\* the KeyError of the first of the look-ups chaves, made in this order, that
\* finds nothing; NA when every key is there
KeyError(chaves) ==
    IF \E i \in 1..Len(chaves) : chaves[i] = ausente
    THEN [tipo |-> "KeyError", nome |-> ausente[Len(ausente)]]
    ELSE NA

\* an exception leaves the function: nothing after the raise runs
Raise(e) ==
    /\ erro' = e
    /\ pc' = "falhou"
    /\ UNCHANGED <<arquivos, datasets, ausente, usuarios, conteudos, interacoes,
                   dataset, top_n, metricas, artefatos, gravados,
                   gerar_graficos>>

(***************************************************************************)
(* Ingestion                                                               *)
(***************************************************************************)
IdCols == {"usuario_id", "conteudo_id", "autor_id", "interacao_id"}

DateCols == {"data_publicacao", "data_interacao"}

\* pd.read_csv(dtype=..., parse_dates=...) raises when an int64 column has an
\* empty cell
read_fails(rows) ==
    \E i \in 1..Len(rows) : \E c \in DOMAIN rows[i] \cap IdCols : isna(rows[i][c])

\* parse_dates: a column whose cells all parse becomes a datetime64 column,
\* any other column is left as the text it was
read_csv(rows) ==
    LET Parses(c) == \A i \in 1..Len(rows) :
                         isna(rows[i][c]) \/ notna(to_datetime(rows[i][c]))
    IN [i \in 1..Len(rows) |->
          [c \in DOMAIN rows[i] |->
              IF c \in DateCols /\ Parses(c) THEN to_datetime(rows[i][c])
              ELSE rows[i][c]]]

\* load_csv_dataset: NA, or the DataIngestionError it raises
load_error(nome) ==
    IF nome \notin DOMAIN arquivos \/ read_fails(arquivos[nome]) \/ arquivos[nome] = <<>>
    THEN [tipo |-> "DataIngestionError", nome |-> nome]
    ELSE NA

(***************************************************************************)
(* The pipeline                                                            *)
(***************************************************************************)
\* build_engagement_dataset(datasets) called on an input map
Init ==
    /\ pc = "clean_usuarios"
    /\ arquivos = <<>>
    /\ \E nu \in 0..MaxLinhasBrutas :
         \E nc \in 0..(MaxLinhasBrutas - nu) :
           \E ni \in 0..(MaxLinhasBrutas - nu - nc) :
             datasets \in [usuarios : [1..nu -> RawUsuarios],
                           conteudos : [1..nc -> RawConteudos],
                           interacoes : [1..ni -> RawInteracoes]]
    /\ ausente = NA
    /\ usuarios = <<>>
    /\ conteudos = <<>>
    /\ interacoes = <<>>
    /\ dataset = <<>>
    /\ top_n = DefaultTopN
    /\ metricas = <<>>
    /\ artefatos = <<>>
    /\ erro = NA
    /\ gravados = <<>>
    /\ gerar_graficos = TRUE

\* a metric function called on its own on a unified dataset
InitMetricas ==
    /\ pc = "metricas"
    /\ arquivos = <<>>
    /\ datasets = [usuarios |-> <<>>, conteudos |-> <<>>, interacoes |-> <<>>]
    /\ ausente = NA
    /\ usuarios = <<>>
    /\ conteudos = <<>>
    /\ interacoes = <<>>
    /\ dataset \in SeqsUpTo(LinhasUnificadas, MaxLinhas)
    /\ top_n \in TopNs
    /\ metricas = <<>>
    /\ artefatos = <<>>
    /\ erro = NA
    /\ gravados = <<>>
    /\ gerar_graficos = TRUE

\* distribuicao_tipo_interacao called on a dataset that may hold rows
\* without interacao_id
InitDistribuicao ==
    /\ pc = "metricas"
    /\ arquivos = <<>>
    /\ datasets = [usuarios |-> <<>>, conteudos |-> <<>>, interacoes |-> <<>>]
    /\ ausente = NA
    /\ usuarios = <<>>
    /\ conteudos = <<>>
    /\ interacoes = <<>>
    /\ dataset \in SeqsUpTo(LinhasUnificadas \cup LinhasSemId, MaxLinhas)
    /\ top_n = DefaultTopN
    /\ metricas = <<>>
    /\ artefatos = <<>>
    /\ erro = NA
    /\ gravados = <<>>
    /\ gerar_graficos = TRUE

\* the three cleaners called on raw collections of every kind of row
InitCleaner ==
    /\ pc = "clean_usuarios"
    /\ arquivos = <<>>
    /\ \E nu \in 0..MaxLinhasSujas :
         \E nc \in 0..(MaxLinhasSujas - nu) :
           \E ni \in 0..(MaxLinhasSujas - nu - nc) :
             datasets \in [usuarios : [1..nu -> SujosUsuarios],
                           conteudos : [1..nc -> SujosConteudos],
                           interacoes : [1..ni -> SujosInteracoes]]
    /\ ausente = NA
    /\ usuarios = <<>>
    /\ conteudos = <<>>
    /\ interacoes = <<>>
    /\ dataset = <<>>
    /\ top_n = DefaultTopN
    /\ metricas = <<>>
    /\ artefatos = <<>>
    /\ erro = NA
    /\ gravados = <<>>
    /\ gerar_graficos = TRUE

\* build_engagement_dataset(datasets) called on an input map that may lack a
\* collection or a column
InitEstrutura ==
    /\ pc = "clean_usuarios"
    /\ arquivos = <<>>
    /\ ausente \in Defeitos \cup {NA}
    /\ \E nu \in 0..MaxLinhasEstrutura :
         \E nc \in 0..(MaxLinhasEstrutura - nu) :
           \E ni \in 0..(MaxLinhasEstrutura - nu - nc) :
             \E ds \in [usuarios : [1..nu -> RawUsuarios],
                        conteudos : [1..nc -> RawConteudos],
                        interacoes : [1..ni -> RawInteracoes]] :
                 datasets = SemDefeito(ds, ausente)
    /\ usuarios = <<>>
    /\ conteudos = <<>>
    /\ interacoes = <<>>
    /\ dataset = <<>>
    /\ top_n = DefaultTopN
    /\ metricas = <<>>
    /\ artefatos = <<>>
    /\ erro = NA
    /\ gravados = <<>>
    /\ gerar_graficos = TRUE

\* run_pipeline() started on the CSV files of dados/raw, one of which may
\* not exist
InitRun ==
    /\ pc = "load"
    /\ \E falta \in {<<Colecoes[i]>> : i \in 1..Len(Colecoes)} \cup {NA} :
         \E nu \in 0..MaxLinhasArquivos :
           \E nc \in 0..(MaxLinhasArquivos - nu) :
             \E ni \in 0..(MaxLinhasArquivos - nu - nc) :
               \E fs \in [usuarios : [1..nu -> RawUsuarios],
                          conteudos : [1..nc -> RawConteudos],
                          interacoes : [1..ni -> RawInteracoes]] :
                   arquivos = SemDefeito(fs, falta)
    /\ datasets = <<>>
    /\ ausente = NA
    /\ usuarios = <<>>
    /\ conteudos = <<>>
    /\ interacoes = <<>>
    /\ dataset = <<>>
    /\ top_n = DefaultTopN
    /\ metricas = <<>>
    /\ artefatos = <<>>
    /\ erro = NA
    /\ gravados = <<>>
    /\ gerar_graficos \in BOOLEAN

\* load_all_datasets: the files are read in the order of DATASETS, the first
\* failure ends the run
Load ==
    /\ pc = "load"
    /\ LET ruins == {i \in 1..Len(Colecoes) : notna(load_error(Colecoes[i]))}
       IN IF ruins # {}
          THEN Raise(load_error(Colecoes[CHOOSE i \in ruins : \A j \in ruins : i <= j]))
          ELSE /\ datasets' = [c \in DOMAIN arquivos |-> read_csv(arquivos[c])]
               /\ pc' = "clean_usuarios"
               /\ UNCHANGED <<arquivos, ausente, usuarios, conteudos, interacoes,
                              dataset, top_n, metricas, artefatos, erro,
                   gravados, gerar_graficos>>

\* build_engagement_dataset, statement by statement
CleanUsuarios ==
    /\ pc = "clean_usuarios"
    /\ LET e == KeyError(<<<<"usuarios">>, <<"usuarios", "nome">>,
                           <<"usuarios", "segmento">>, <<"usuarios", "usuario_id">>>>)
       IN IF notna(e) THEN Raise(e)
          ELSE /\ usuarios' = clean_usuarios(datasets.usuarios)
               /\ datasets' = [datasets EXCEPT
                                 !.usuarios = df_apos_copy(@, normaliza_usuarios(@))]
               /\ pc' = "clean_conteudos"
               /\ UNCHANGED <<arquivos, ausente, conteudos, interacoes, dataset,
                              top_n, metricas, artefatos, erro,
                   gravados, gerar_graficos>>

CleanConteudos ==
    /\ pc = "clean_conteudos"
    /\ LET e == KeyError(<<<<"conteudos">>, <<"conteudos", "categoria">>,
                           <<"conteudos", "data_publicacao">>>>)
       IN IF notna(e) THEN Raise(e)
          ELSE /\ conteudos' = clean_conteudos(datasets.conteudos)
               /\ datasets' = [datasets EXCEPT
                                 !.conteudos = df_apos_copy(@, normaliza_conteudos(@))]
               /\ pc' = "clean_interacoes"
               /\ UNCHANGED <<arquivos, ausente, usuarios, interacoes, dataset,
                              top_n, metricas, artefatos, erro,
                   gravados, gerar_graficos>>

CleanInteracoes ==
    /\ pc = "clean_interacoes"
    /\ LET e == KeyError(<<<<"interacoes">>, <<"interacoes", "tipo_interacao">>,
                           <<"interacoes", "data_interacao">>>>)
       IN IF notna(e) THEN Raise(e)
          ELSE /\ interacoes' = clean_interacoes(datasets.interacoes)
               /\ datasets' = [datasets EXCEPT
                                 !.interacoes = df_apos_copy(@, normaliza_interacoes(@))]
               /\ pc' = "join"
               /\ UNCHANGED <<arquivos, ausente, usuarios, conteudos, dataset,
                              top_n, metricas, artefatos, erro,
                   gravados, gerar_graficos>>

\* the merges look their key up in both frames
JoinDatasets ==
    /\ pc = "join"
    /\ LET e == KeyError(<<<<"interacoes", "conteudo_id">>, <<"conteudos", "conteudo_id">>,
                           <<"conteudos", "autor_id">>, <<"interacoes", "usuario_id">>>>)
       IN IF notna(e) THEN Raise(e)
          ELSE /\ dataset' = join_datasets(usuarios, conteudos, interacoes)
               /\ pc' = "calcular"
               /\ UNCHANGED <<arquivos, datasets, ausente, usuarios, conteudos,
                              interacoes, top_n, metricas, artefatos, erro,
                   gravados, gerar_graficos>>

\* calcular_metricas_engajamento calls the five functions in this order;
\* called on their own (pc = "metricas") they run in any order
Ordem == <<"globais", "ranking", "categorias", "timeline", "distribuicao">>

Pos(nome) == CHOOSE i \in 1..Len(Ordem) : Ordem[i] = nome

\* the functions are started without waiting for build_engagement_dataset
Pode_alt(nome) ==
    /\ nome \notin DOMAIN metricas
    /\ pc \in {"metricas", "join", "calcular"}

Pode(nome) ==
    /\ nome \notin DOMAIN metricas
    /\ \/ pc = "metricas"
       \/ pc = "calcular" /\ DOMAIN metricas = {Ordem[i] : i \in 1..(Pos(nome) - 1)}

\* global_engagement_metrics drops the repeated interacao_id in place
entrada_apos_alt(nome, df) ==
    IF nome = "globais"
    THEN LET Primeira(r) == \A j \in 1..Len(df) :
                 df[j].interacao_id = r.interacao_id => \E k \in 1..j : df[k] = r
         IN SelectSeq(df, Primeira)
    ELSE df

\* the frame passed to the metric function nome, after the call: the
\* functions derive new frames from df and assign to none of its columns
entrada_apos(nome, df) == df

Registra(nome, valor) ==
    /\ metricas' = (nome :> valor) @@ metricas
    /\ dataset' = entrada_apos(nome, dataset)
    /\ pc' = IF pc = "calcular" /\ Pos(nome) = Len(Ordem) THEN "done" ELSE pc
    /\ UNCHANGED <<arquivos, datasets, ausente, usuarios, conteudos, interacoes,
                   top_n, artefatos, erro,
                   gravados, gerar_graficos>>

Globais ==
    /\ Pode("globais")
    /\ Registra("globais", global_engagement_metrics(dataset))

Ranking ==
    /\ Pode("ranking")
    /\ \E r \in top_autores_por_engajamento(dataset, top_n) : Registra("ranking", r)

Categorias ==
    /\ Pode("categorias")
    /\ \E r \in interacoes_por_categoria(dataset) : Registra("categorias", r)

Timeline ==
    /\ Pode("timeline")
    /\ Registra("timeline", timeline_engajamento(dataset))

Distribuicao ==
    /\ Pode("distribuicao")
    /\ \E r \in distribuicao_tipo_interacao(dataset) : Registra("distribuicao", r)

\* run_pipeline after calcular_metricas_engajamento: the artefacts, in the
\* order they are written
Persist ==
    /\ pc = "done"
    /\ gravados' = Append(gravados, "engajamento.csv")
    /\ artefatos' = Append(artefatos, "dataset_processado")
    /\ pc' = "relatorio"
    /\ UNCHANGED <<arquivos, datasets, ausente, usuarios, conteudos, interacoes,
                   dataset, top_n, metricas, erro, gerar_graficos>>

\* gerar_relatorio_markdown reads four of the five metrics
Relatorio ==
    /\ pc = "relatorio"
    /\ IF {"globais", "ranking", "categorias", "distribuicao"} \subseteq DOMAIN metricas
       THEN /\ gravados' = Append(gravados, "relatorio_engajamento.md")
            /\ artefatos' = Append(artefatos, "relatorio_markdown")
            /\ pc' = "graficos"
            /\ UNCHANGED <<arquivos, datasets, ausente, usuarios, conteudos,
                           interacoes, dataset, top_n, metricas, erro,
                           gerar_graficos>>
       ELSE Raise([tipo |-> "KeyError", nome |-> "metricas"])

\* the condition of the optional step: gerar_graficos and not df.empty
com_graficos_alt(gerar, df) == gerar

com_graficos(gerar, df) == gerar /\ df # <<>>

\* gerar_graficos_matplotlib draws the chart of the categories, then the
\* chart of the timeline; the "graficos" entry is set after both are saved
Graficos ==
    /\ pc = "graficos"
    /\ IF com_graficos(gerar_graficos, dataset)
       THEN /\ gravados' = gravados \o <<"score_por_categoria.png",
                                         "timeline_engajamento.png">>
            /\ artefatos' = Append(artefatos, "graficos")
       ELSE UNCHANGED <<gravados, artefatos>>
    /\ pc' = "fim"
    /\ UNCHANGED <<arquivos, datasets, ausente, usuarios, conteudos, interacoes,
                   dataset, top_n, metricas, erro, gerar_graficos>>

NextCleaner == CleanUsuarios \/ CleanConteudos \/ CleanInteracoes

NextBuild == NextCleaner \/ JoinDatasets

NextMetricas == Globais \/ Ranking \/ Categorias \/ Timeline \/ Distribuicao

Next == NextBuild \/ NextMetricas

NextRun == Load \/ Next \/ Persist \/ Relatorio \/ Graficos

Spec == Init /\ [][Next]_vars

SpecMetricas == InitMetricas /\ [][NextMetricas]_vars

SpecDistribuicao == InitDistribuicao /\ [][Distribuicao]_vars

SpecCleaner == InitCleaner /\ [][NextCleaner]_vars

SpecEstrutura == InitEstrutura /\ [][NextBuild]_vars

SpecRun == InitRun /\ [][NextRun]_vars

(***************************************************************************)
(* Properties                                                              *)
(***************************************************************************)
Cleaned == pc \in {"join", "calcular", "done"}

Built == pc \in {"calcular", "done"}

Feita(nome) == nome \in DOMAIN metricas

\* the columns an interaction brings into the join
InterCols(r) ==
    [interacao_id |-> r.interacao_id, conteudo_id |-> r.conteudo_id,
     usuario_id |-> r.usuario_id, tipo_interacao |-> r.tipo_interacao,
     data_interacao |-> r.data_interacao, peso_interacao |-> r.peso_interacao]

\* C1: the dataset returned by build_engagement_dataset has no more rows than
\* clean_interacoes returns for the same interactions: no interaction is
\* multiplied into several unified rows, even when several content rows share
\* a conteudo_id.
C1_NoRowMultiplication == Built => Len(dataset) <= Len(interacoes)

\* C2: every row returned by clean_interacoes has a trimmed, lower-cased
\* tipo_interacao that is a key of INTERACTION_WEIGHTS and a peso_interacao
\* equal to the table's value for it; a raw row whose normalized type is not a
\* key is in neither the cleaned output nor the joined dataset.
TipoValido(r) ==
    /\ notna(r.tipo_interacao)
    /\ r.tipo_interacao[1] \in DOMAIN INTERACTION_WEIGHTS
    /\ r.tipo_interacao[1] = str_lower(str_strip(r.tipo_interacao[1]))
    /\ r.peso_interacao = <<INTERACTION_WEIGHTS[r.tipo_interacao[1]]>>

TipoDesconhecido(raw) ==
    \/ isna(raw.tipo_interacao)
    \/ str_lower(str_strip(raw.tipo_interacao[1])) \notin {curtida, comentario, compartilhamento}

C2_WeightsFromTable ==
    /\ Cleaned =>
         /\ \A r \in Range(interacoes) : TipoValido(r)
         /\ \A raw \in Range(datasets.interacoes) : TipoDesconhecido(raw) =>
              \A r \in Range(interacoes) : r.interacao_id # raw.interacao_id
    /\ Built =>
         /\ \A r \in Range(dataset) : TipoValido(r)
         /\ \A raw \in Range(datasets.interacoes) : TipoDesconhecido(raw) =>
              \A r \in Range(dataset) : r.interacao_id # raw.interacao_id

C2_Witness ==
    /\ pc = "done"
    /\ \E raw \in Range(datasets.interacoes) : raw.tipo_interacao = <<T_poke>>
    /\ \E raw \in Range(datasets.interacoes) : raw.tipo_interacao = <<T_COMPARTILHAMENTO>>
    /\ Len(interacoes) = 1
    /\ interacoes[1].tipo_interacao = <<compartilhamento>>
    /\ interacoes[1].peso_interacao = <<3>>
    /\ Len(dataset) = 1

\* C3: a cleaned interaction whose conteudo_id matches no cleaned content row,
\* or whose content's autor_id matches no cleaned user, or whose usuario_id
\* matches no cleaned user, has no row in the unified dataset, and the five
\* metrics are those of the resolvable interactions alone.
Resolve(i) ==
    \E c \in Range(conteudos) :
        /\ c.conteudo_id = i.conteudo_id
        /\ \E a \in Range(usuarios) : a.usuario_id = c.autor_id
        /\ \E u \in Range(usuarios) : u.usuario_id = i.usuario_id

Resolvidas == SelectSeq(interacoes, Resolve)

C3_UnresolvedExcluded ==
    /\ Built =>
         /\ \A i \in Range(interacoes) : ~Resolve(i) =>
              \A r \in Range(dataset) : InterCols(r) # i
         /\ \A r \in Range(dataset) :
              /\ \E c \in Range(conteudos) :
                    c.conteudo_id = r.conteudo_id /\ c.autor_id = r.autor_id
              /\ \E a \in Range(usuarios) : a.usuario_id = r.autor_id
              /\ \E u \in Range(usuarios) : u.usuario_id = r.usuario_id
    /\ pc = "done" =>
         LET so == join_datasets(usuarios, conteudos, Resolvidas)
         IN /\ metricas["globais"] = global_engagement_metrics(so)
            /\ metricas["ranking"] \in top_autores_por_engajamento(so, top_n)
            /\ metricas["categorias"] \in interacoes_por_categoria(so)
            /\ metricas["timeline"] = timeline_engajamento(so)
            /\ metricas["distribuicao"] \in distribuicao_tipo_interacao(so)

C3_Witness ==
    /\ pc = "done"
    /\ Len(interacoes) = 2
    /\ ~Resolve(interacoes[1])
    /\ Resolve(interacoes[2])
    /\ Len(dataset) = 1
    /\ metricas["globais"].total_interacoes = 1

\* C4: in every row of the dataset returned by build_engagement_dataset the
\* interaction id, type, weight and date, the content category and publish
\* date, the author id and name and the participant id and name are all
\* present, whatever ids, names or categories the raw inputs lack.
C4_AllFieldsPresent ==
    Built => \A r \in Range(dataset) :
        /\ notna(r.interacao_id)
        /\ notna(r.tipo_interacao)
        /\ notna(r.peso_interacao)
        /\ notna(r.data_interacao)
        /\ notna(r.categoria)
        /\ notna(r.data_publicacao)
        /\ notna(r.autor_id)
        /\ notna(r.autor_nome)
        /\ notna(r.usuario_id)
        /\ notna(r.usuario_nome)

(***************************************************************************)
(* Properties of the metric functions                                      *)
(***************************************************************************)
Abs(x) == IF x < 0 THEN -x ELSE x

TotalPesos == SumSeq([i \in 1..Len(dataset) |-> dataset[i].peso_interacao[1]])

SomaCol(rows, col) == SumSeq([i \in 1..Len(rows) |-> rows[i][col]])

NumAutores == Cardinality({r.autor_id : r \in Range(dataset)})

\* avg, in hundredths, is total / n rounded to 2 decimals
Arredonda(avg, total, n) == 2 * Abs(100 * total - avg * n) <= n

\* C5: the scores of interacoes_por_categoria add up to the total of
\* peso_interacao that global_engagement_metrics divides by the distinct
\* content count, and to the scores of top_autores_por_engajamento when top_n
\* is at least the number of authors.
C5_ScoreTotals ==
    /\ Feita("categorias") =>
         SomaCol(metricas["categorias"], "score") = TotalPesos
    /\ Feita("categorias") /\ Feita("globais") =>
         LET g == metricas["globais"]
             soma == SomaCol(metricas["categorias"], "score")
         IN IF g.conteudos_analisados = 0
            THEN soma = 0 /\ g.engajamento_medio_por_conteudo = 0
            ELSE Arredonda(g.engajamento_medio_por_conteudo, soma,
                           g.conteudos_analisados)
    /\ Feita("categorias") /\ Feita("ranking") /\ top_n >= NumAutores =>
         SomaCol(metricas["ranking"], "score_engajamento")
             = SomaCol(metricas["categorias"], "score")

C5_Witness ==
    /\ Feita("categorias") /\ Feita("ranking") /\ Feita("globais")
    /\ top_n = DefaultTopN
    /\ Len(metricas["categorias"]) = 2
    /\ Len(metricas["ranking"]) = 2
    /\ metricas["categorias"][1].score # metricas["categorias"][1].interacoes
    /\ SomaCol(metricas["ranking"], "score_engajamento") = 6
    /\ metricas["globais"].engajamento_medio_por_conteudo = 300

\* C6: for a non-empty dataset timeline_engajamento returns one row per
\* calendar day from the earliest to the latest interaction day, ascending
\* and without a gap, (last - first) + 1 rows in all, each with the number of
\* interactions of that day and the sum of their weights (0 and 0 for a day
\* without interaction).
C6_TimelineContinuous ==
    Feita("timeline") /\ dataset # <<>> =>
        LET t == metricas["timeline"]
            dias == {r.dia_interacao[1] : r \in Range(dataset)}
            lo == CHOOSE d \in dias : \A e \in dias : d <= e
            hi == CHOOSE d \in dias : \A e \in dias : d >= e
        IN /\ Len(t) = hi - lo + 1
           /\ \A k \in 1..Len(t) :
                LET noDia == {i \in 1..Len(dataset) :
                                 dataset[i].dia_interacao = t[k].data_interacao}
                    NoDia(r) == r.dia_interacao = t[k].data_interacao
                IN /\ t[k].data_interacao = <<lo + k - 1>>
                   /\ t[k].interacoes = Cardinality(noDia)
                   /\ t[k].score = SumSeq([i \in 1..Len(dataset) |->
                                           IF NoDia(dataset[i])
                                           THEN dataset[i].peso_interacao[1] ELSE 0])

C6_Witness ==
    /\ Feita("timeline")
    /\ Len(dataset) = 3
    /\ Len(metricas["timeline"]) = 5
    /\ \E k \in 1..5 : metricas["timeline"][k].interacoes = 0 /\ metricas["timeline"][k].score = 0
    /\ \E k \in 1..5 : metricas["timeline"][k].interacoes = 2

\* C7: the percentual column of distribuicao_tipo_interacao adds up to 100.0
\* within the rounding of each row to 2 decimals when the total interaction
\* count is positive, and is 0.0 in every row when the total is 0.
TotalContado == Cardinality({i \in 1..Len(dataset) : notna(dataset[i].interacao_id)})

C7_PercentuaisSomam ==
    Feita("distribuicao") =>
        LET t == metricas["distribuicao"]
        IN IF TotalContado > 0
           THEN 2 * Abs(SomaCol(t, "percentual") - 10000) <= Len(t)
           ELSE \A k \in 1..Len(t) : t[k].percentual = 0

C7_Witness ==
    /\ Feita("distribuicao")
    /\ TotalContado = 3
    /\ Len(dataset) = 3
    /\ Len(metricas["distribuicao"]) = 3
    /\ SomaCol(metricas["distribuicao"], "percentual") = 9999

\* C8: top_autores_por_engajamento returns the first top_n rows of the full
\* ranking, and no row at all when top_n is 0 or negative.
C8_TopNTruncation ==
    Feita("ranking") =>
        \E full \in sort_values(groupby_autor(dataset), "score_engajamento") :
            metricas["ranking"] = SubSeq(full, 1, Min(Max(top_n, 0), Len(full)))

\* C9: top_autores_por_engajamento orders the authors by score descending and
\* leaves authors with equal scores in group order (ascending autor_id,
\* autor_nome), as a stable sort does.
StableDesc(rows) ==
    LET f == CHOOSE g \in Permutations(1..Len(rows)) :
                 \A i, j \in 1..Len(rows) : i < j =>
                     \/ rows[g[i]].score_engajamento > rows[g[j]].score_engajamento
                     \/ /\ rows[g[i]].score_engajamento = rows[g[j]].score_engajamento
                        /\ g[i] < g[j]
    IN [i \in 1..Len(rows) |-> rows[f[i]]]

C9_StableRanking ==
    Feita("ranking") /\ top_n >= 0 =>
        LET full == StableDesc(groupby_autor(dataset))
        IN metricas["ranking"] = SubSeq(full, 1, Min(top_n, Len(full)))

\* C10: global_engagement_metrics returns the numbers of distinct
\* interacao_id, conteudo_id and usuario_id, and the sum of the weights
\* divided by the distinct content count rounded to 2 decimals, 0.0 when
\* there is no content.
C10_GlobalMetrics ==
    Feita("globais") =>
        LET g == metricas["globais"]
            nConteudos == Cardinality({r.conteudo_id : r \in Range(dataset)})
        IN /\ g.total_interacoes = Cardinality({r.interacao_id : r \in Range(dataset)})
           /\ g.conteudos_analisados = nConteudos
           /\ g.usuarios_participantes = Cardinality({r.usuario_id : r \in Range(dataset)})
           /\ IF nConteudos = 0 THEN g.engajamento_medio_por_conteudo = 0
              ELSE Arredonda(g.engajamento_medio_por_conteudo, TotalPesos, nConteudos)

C10_Witness ==
    /\ Feita("globais")
    /\ Len(dataset) = 3
    /\ metricas["globais"].total_interacoes = 2
    /\ metricas["globais"].conteudos_analisados = 3
    /\ metricas["globais"].usuarios_participantes = 2
    /\ metricas["globais"].engajamento_medio_por_conteudo = 133

(***************************************************************************)
(* Empty inputs, cleaners                                                  *)
(***************************************************************************)
ZeroGlobais ==
    [total_interacoes |-> 0, conteudos_analisados |-> 0,
     usuarios_participantes |-> 0, engajamento_medio_por_conteudo |-> 0]

\* C11: on a unified dataset with zero rows none of the five metric functions
\* raises: global_engagement_metrics returns the counts 0 and the average 0.0,
\* each of the other four returns a table without rows.
C11_EmptyDataset ==
    dataset = <<>> =>
        /\ erro = NA
        /\ pc # "falhou"
        /\ Feita("globais") => metricas["globais"] = ZeroGlobais
        /\ \A nome \in {"ranking", "categorias", "timeline", "distribuicao"} :
              Feita(nome) => metricas[nome] = <<>>

C11_Witness ==
    /\ dataset = <<>>
    /\ DOMAIN metricas = Range(Ordem)
    /\ metricas["globais"].engajamento_medio_por_conteudo = 0
    /\ metricas["timeline"] = <<>>

\* C12: each cleaner is idempotent: applied to its own output, clean_usuarios,
\* clean_conteudos and clean_interacoes return that output again, row for row
\* and in the same order.
C12_CleanersIdempotent ==
    /\ pc \in {"clean_conteudos", "clean_interacoes", "join"} =>
          clean_usuarios(usuarios) = usuarios
    /\ pc \in {"clean_interacoes", "join"} =>
          clean_conteudos(conteudos) = conteudos
    /\ pc = "join" =>
          clean_interacoes(interacoes) = interacoes

C12_Witness ==
    /\ pc = "join"
    /\ Len(datasets.usuarios) = 2 /\ Len(usuarios) = 1
    /\ usuarios[1] # datasets.usuarios[1]
    /\ Len(conteudos) = 1
    /\ conteudos[1].data_publicacao # datasets.conteudos[1].data_publicacao
    /\ conteudos[1].categoria # datasets.conteudos[1].categoria

\* C13: clean_usuarios returns exactly one row per distinct usuario_id, the
\* first input row with that id, with nome trimmed and segmento trimmed and
\* lower-cased, the rows in the order in which their ids first appear.
UsuarioLimpo(raw) ==
    [usuario_id |-> raw.usuario_id,
     nome |-> IF isna(raw.nome) THEN NA ELSE <<str_strip(raw.nome[1])>>,
     segmento |-> IF isna(raw.segmento) THEN NA
                  ELSE <<str_lower(str_strip(raw.segmento[1]))>>]

C13_FirstPerUsuarioId ==
    pc \in {"clean_conteudos", "clean_interacoes", "join"} =>
        LET raw == datasets.usuarios
            primeiras == {i \in 1..Len(raw) :
                             \A j \in 1..(i - 1) : raw[j].usuario_id # raw[i].usuario_id}
        IN /\ Len(usuarios) = Cardinality({raw[i].usuario_id : i \in 1..Len(raw)})
           /\ Len(usuarios) = Cardinality(primeiras)
           /\ \A k \in 1..Len(usuarios) :
                 \E i \in primeiras :
                     /\ Cardinality({j \in primeiras : j <= i}) = k
                     /\ usuarios[k] = UsuarioLimpo(raw[i])

C13_Witness ==
    /\ pc = "join"
    /\ Len(datasets.usuarios) = 3 /\ Len(usuarios) = 2
    /\ datasets.usuarios[1].usuario_id = datasets.usuarios[3].usuario_id
    /\ datasets.usuarios[1].usuario_id # datasets.usuarios[2].usuario_id
    /\ UsuarioLimpo(datasets.usuarios[1]) # UsuarioLimpo(datasets.usuarios[3])
    /\ usuarios[1].nome = <<N_Ana>>

\* C14: the rows returned by clean_interacoes are exactly the input rows whose
\* data_interacao is a valid date and whose normalized tipo_interacao is a key
\* of the weight table, in their input order, repeated rows kept; a row whose
\* date or type is missing is dropped like one with an invalid value.
DataValida(x) == notna(x) /\ (IsTimestamp(x) \/ IsValidDate(x))

InteracaoValida(raw) == DataValida(raw.data_interacao) /\ ~TipoDesconhecido(raw)

C14_SurvivingInteracoes ==
    pc = "join" =>
        LET raw == datasets.interacoes
            validas == {i \in 1..Len(raw) : InteracaoValida(raw[i])}
        IN /\ Len(interacoes) = Cardinality(validas)
           /\ \A k \in 1..Len(interacoes) :
                 \E i \in validas :
                     /\ Cardinality({j \in validas : j <= i}) = k
                     /\ interacoes[k].interacao_id = raw[i].interacao_id
                     /\ interacoes[k].conteudo_id = raw[i].conteudo_id
                     /\ interacoes[k].usuario_id = raw[i].usuario_id
                     /\ interacoes[k].tipo_interacao
                            = <<str_lower(str_strip(raw[i].tipo_interacao[1]))>>
                     /\ interacoes[k].data_interacao
                            = IF IsTimestamp(raw[i].data_interacao)
                              THEN raw[i].data_interacao
                              ELSE <<ToOrdinal(raw[i].data_interacao[1],
                                               raw[i].data_interacao[2],
                                               raw[i].data_interacao[3])>>

C14_Witness ==
    /\ pc = "join"
    /\ Len(datasets.interacoes) = 3
    /\ datasets.interacoes[1] = datasets.interacoes[3]
    /\ \/ isna(datasets.interacoes[2].tipo_interacao)
       \/ isna(datasets.interacoes[2].data_interacao)
    /\ Len(interacoes) = 2
    /\ interacoes[1] = interacoes[2]

(***************************************************************************)
(* Failures and stage order                                                *)
(***************************************************************************)
\* the three files exist and every row has its ids: what is wrong with the
\* rows, if anything, is a date, a type, a reference, a repeated key or the
\* absence of rows
SoQualidade ==
    /\ Range(Colecoes) \subseteq DOMAIN arquivos
    /\ \A c \in Range(Colecoes) : ~read_fails(arquivos[c])

\* C15: data-quality problems never abort a run: on three input collections
\* that carry the required columns, whatever malformed dates, unknown types,
\* unresolved references, repeated keys or zero rows they hold, the pipeline
\* (load, build_engagement_dataset, the five metrics) raises nothing, and an
\* empty input collection gives an empty result.
C15_NeverAborts ==
    SoQualidade =>
        /\ erro = NA
        /\ pc # "falhou"
        /\ (pc = "fim" /\ \E c \in Range(Colecoes) : arquivos[c] = <<>>) =>
              dataset = <<>>

\* C16: build_engagement_dataset fails if and only if the input map lacks one
\* of the three collections or a collection lacks a required column; the
\* failure names the missing collection or column and no dataset is returned.
C16_FailsIffStructural ==
    /\ pc = "calcular" => ausente = NA
    /\ pc = "falhou" =>
          /\ ausente # NA
          /\ erro.tipo = "KeyError"
          /\ erro.nome = ausente[Len(ausente)]
          /\ dataset = <<>>
    /\ ausente = NA => erro = NA /\ pc # "falhou"

\* C17: in every run of the pipeline the stages happen in strict order: the
\* three cleaners complete before the join starts, the join and null-filter
\* complete before any metric function starts, the five metrics complete
\* before the report is built; a stage starts on the full output of its
\* predecessor, and after a failure no later stage runs.
Etapas ==
    <<"load", "clean_usuarios", "clean_conteudos", "clean_interacoes", "join",
      "calcular", "done", "relatorio", "graficos", "fim">>

Etapa(p) == CHOOSE i \in 1..Len(Etapas) : Etapas[i] = p

Antes(p) == pc # "falhou" /\ Etapa(pc) <= Etapa(p)

EtapasCompletas ==
    /\ Antes("join") => dataset = <<>> /\ metricas = <<>>
    /\ Antes("done") => artefatos = <<>>
    /\ Antes("calcular") /\ ~Antes("clean_interacoes") =>
          /\ usuarios = clean_usuarios(datasets.usuarios)
          /\ conteudos = clean_conteudos(datasets.conteudos)
          /\ interacoes = clean_interacoes(datasets.interacoes)
    /\ pc # "falhou" /\ ~Antes("join") =>
          dataset = join_datasets(usuarios, conteudos, interacoes)
    /\ pc # "falhou" /\ ~Antes("calcular") => DOMAIN metricas = Range(Ordem)
    /\ pc = "falhou" =>
          /\ DOMAIN datasets = {}
          /\ usuarios = <<>> /\ conteudos = <<>> /\ interacoes = <<>>
          /\ dataset = <<>> /\ metricas = <<>> /\ artefatos = <<>>

PassoEmOrdem ==
    /\ pc # "falhou"
    /\ \/ pc' = "falhou"
       \/ Etapa(pc') = Etapa(pc) + 1
       \/ pc' = pc /\ pc = "calcular" /\ DOMAIN metricas' # Range(Ordem)

C17_StrictStageOrder == []EtapasCompletas /\ [][PassoEmOrdem]_vars

C17_Witness ==
    /\ pc = "fim"
    /\ Len(interacoes) = 2 /\ Len(dataset) = 1
    /\ DOMAIN metricas = Range(Ordem)
    /\ artefatos = <<"dataset_processado", "relatorio_markdown", "graficos">>

(***************************************************************************)
(* Frames, independence, totals                                            *)
(***************************************************************************)
\* C18: no stage modifies its input: the raw collections are the same after
\* clean_usuarios, clean_conteudos and clean_interacoes as before, the three
\* cleaned collections are the same after the joins and the filter of
\* build_engagement_dataset, the unified dataset is the same after each of
\* the five metric functions, and the weight table is the same after any
\* sequence of calls.
EntradasIguais ==
    /\ datasets' = datasets
    /\ pc = "clean_conteudos" => usuarios' = usuarios
    /\ pc = "clean_interacoes" => usuarios' = usuarios /\ conteudos' = conteudos
    /\ pc = "join" =>
          usuarios' = usuarios /\ conteudos' = conteudos /\ interacoes' = interacoes
    /\ pc = "calcular" =>
          /\ dataset' = dataset
          /\ usuarios' = usuarios /\ conteudos' = conteudos /\ interacoes' = interacoes
    /\ INTERACTION_WEIGHTS' = INTERACTION_WEIGHTS

C18_InputsUnchanged == [][EntradasIguais]_vars

C18_Witness ==
    /\ pc = "done"
    /\ Len(datasets.usuarios) = 1
    /\ datasets.usuarios[1].nome = <<T_Ana>> /\ usuarios[1].nome = <<N_Ana>>
    /\ Len(datasets.conteudos) = 1
    /\ datasets.conteudos[1].data_publicacao = <<2025, 10, 1>>
    /\ conteudos[1].data_publicacao = <<ToOrdinal(2025, 10, 1)>>
    /\ Len(datasets.interacoes) = 2 /\ Len(interacoes) = 1 /\ Len(dataset) = 1
    /\ DOMAIN metricas = Range(Ordem)

\* C19: the five metric functions are independent of each other: evaluated
\* in any order on the same unified dataset, each gives a result it gives
\* when it is the only one evaluated, so the bundle of
\* calcular_metricas_engajamento does not depend on the order of evaluation.
C19_MetricsIndependent ==
    /\ Feita("globais") =>
          metricas["globais"] = global_engagement_metrics(dataset)
    /\ Feita("ranking") =>
          metricas["ranking"] \in top_autores_por_engajamento(dataset, top_n)
    /\ Feita("categorias") =>
          metricas["categorias"] \in interacoes_por_categoria(dataset)
    /\ Feita("timeline") =>
          metricas["timeline"] = timeline_engajamento(dataset)
    /\ Feita("distribuicao") =>
          metricas["distribuicao"] \in distribuicao_tipo_interacao(dataset)

C19_Witness ==
    /\ pc = "metricas"
    /\ DOMAIN metricas = {"distribuicao", "categorias", "globais"}
    /\ Len(dataset) = 3
    /\ metricas["globais"].total_interacoes = 2
    /\ Len(metricas["categorias"]) = 2
    /\ Len(metricas["distribuicao"]) = 2

\* C20: for every dataset returned by build_engagement_dataset the row
\* counts agree: interacoes summed over interacoes_por_categoria, quantidade
\* summed over distribuicao_tipo_interacao and interacoes summed over
\* timeline_engajamento each equal the number of unified rows;
\* total_interacoes is at most that number and equals it exactly when no two
\* unified rows share an interacao_id.
C20_RowCountTotals ==
    pc = "done" =>
        /\ SomaCol(metricas["categorias"], "interacoes") = Len(dataset)
        /\ SomaCol(metricas["distribuicao"], "quantidade") = Len(dataset)
        /\ SomaCol(metricas["timeline"], "interacoes") = Len(dataset)
        /\ metricas["globais"].total_interacoes <= Len(dataset)
        /\ metricas["globais"].total_interacoes = Len(dataset)
              <=> \A i, j \in 1..Len(dataset) :
                      i # j => dataset[i].interacao_id # dataset[j].interacao_id

\* the files of a run in the order run_pipeline writes them
ArquivosDaRun ==
    <<"engajamento.csv", "relatorio_engajamento.md",
      "score_por_categoria.png", "timeline_engajamento.png">>

\* C21: in every run of run_pipeline that completes, the processed dataset is
\* persisted and then the Markdown report is written, in that order and
\* whether or not the unified dataset is empty; the charts are generated if
\* and only if gerar_graficos is true and the unified dataset is non-empty,
\* only after the report has been written, and the returned artefact map has
\* a "graficos" entry exactly in that case.
C21_PersistReportCharts ==
    /\ Len(gravados) <= Len(ArquivosDaRun)
    /\ gravados = SubSeq(ArquivosDaRun, 1, Len(gravados))
    /\ pc = "fim" =>
         /\ SubSeq(gravados, 1, 2) = SubSeq(ArquivosDaRun, 1, 2)
         /\ SubSeq(artefatos, 1, 2) = <<"dataset_processado", "relatorio_markdown">>
         /\ gravados = ArquivosDaRun <=> (gerar_graficos /\ dataset # <<>>)
         /\ Len(gravados) = 2 <=> ~(gerar_graficos /\ dataset # <<>>)
         /\ "graficos" \in Range(artefatos) <=> (gerar_graficos /\ dataset # <<>>)

C21_Witness ==
    /\ pc = "fim"
    /\ gerar_graficos
    /\ dataset # <<>>
    /\ gravados = ArquivosDaRun
    /\ Range(artefatos) = {"dataset_processado", "relatorio_markdown", "graficos"}

====
